---------------------------- MODULE Spec2Model ----------------------------
(***************************************************************************)
(* rkt-monitor: a process-tree resource sampler.                           *)
(*                                                                         *)
(* The repository holds two programs of the same name.                     *)
(*   src/main.go          samples through the gopsutil process library,    *)
(*                        walks the tree with an index loop over a pid     *)
(*                        list, and cleans up with killAllChildren.        *)
(*                        Specification: Spec.                             *)
(*   src/unnamed/part_001 samples by reading /proc itself, walks the tree  *)
(*                        by recursion, and derives the CPU percentage     *)
(*                        from uint64 tick counters.                       *)
(*                        Specification: SpecProc.                         *)
(* Definitions of part_001 carry the prefix p1_.                           *)
(*                                                                         *)
(* Three parts of the programs are also run on their own:                  *)
(*   SpecSize   formatSize and parseLabeledSize on byte counts and strings *)
(*   SpecMem    the memory columns of the final report, on histories       *)
(*   SpecWalk   the tree walks, on any child relation                      *)
(*                                                                         *)
(* The operating system is the environment: processes exit and are         *)
(* started between any two reads the programs make.                        *)
(***************************************************************************)
EXTENDS Integers, Sequences, FiniteSets, TLC

VARIABLES
    \* ---- the operating system
    alive,        \* pids that exist in /proc
    kids,         \* what the child enumeration (pgrep -P) reports, per pid
    killed,       \* pids the program has sent SIGKILL
    ctr,          \* per pid: <<utime, stime>>, cumulative ticks of the process
    sysTicks,     \* the system-wide cumulative tick total of /proc/stat
    events,       \* number of process exits and starts so far
    \* ---- both programs
    pc,           \* position of the main goroutine
    tick,         \* number of sampling ticks started
    statuses,     \* the statuses collected by the running getUsage call
    usages,       \* map pid -> history of statuses
    seen,         \* per pid, the ticks whose returned status list held it
    err,          \* the error value a panic carried
    stderr,       \* the messages written to standard error
    report,       \* the summary lines printed, per pid
    \* ---- main.go
    pidMap,       \* global cache pid -> *process.Process (the cached pids)
    pids,         \* getUsage: the pid list being walked
    idx,          \* getUsage: the loop index i (1-based)
    procs,        \* killAllChildren called from the main goroutine
    cleanup,      \* result of that call: "none", "ok", "failed"
    sigpc,        \* position of the signal goroutine
    sprocs,       \* killAllChildren called from the signal goroutine
    \* ---- part_001
    flagVerbose,  \* -v
    todo,         \* getUsage: the pending calls of the recursion
    usage,        \* the status list of the previous tick
    \* ---- the size functions, called on their own
    size,         \* the byte count given to formatSize
    text,         \* a labeled size: the string formatSize returned, or a line of /proc
    parsed        \* what parseLabeledSize made of text

envVars  == <<alive, kids, killed, ctr, sysTicks, events>>
mainVars == <<pc, tick, statuses, usages, seen, err, stderr, report>>
goVars   == <<pidMap, pids, idx, procs, cleanup, sigpc, sprocs>>
p1Vars   == <<flagVerbose, todo, usage>>
fnVars   == <<size, text, parsed>>
vars     == <<envVars, mainVars, goVars, p1Vars, fnVars>>

---------------------------------------------------------------------------
\* Bounds of the model.

NumPids      == 3   \* pids 1..NumPids; pid 1 is the root
MaxTicks     == 2   \* sampling ticks before the duration has elapsed
MaxProcTicks == 1   \* largest cumulative utime + stime of a process
MaxSysTicks  == 2   \* largest system-wide tick total
MaxEvents    == 2   \* process exits and starts during one run

Root == 1
Pids == 1..NumPids

NoErr == [op |-> "none", pid |-> 0]

---------------------------------------------------------------------------
\* Sequences.

RECURSIVE SetToSeq(_)
\* The pids of S in ascending order, as pgrep prints them.
SetToSeq(S) ==
    IF S = {} THEN <<>>
    ELSE LET m == CHOOSE x \in S : \A y \in S : x <= y
         IN  <<m>> \o SetToSeq(S \ {m})

Range(s) == {s[i] : i \in 1..Len(s)}

PidsOf(sts) == {sts[i].Pid : i \in 1..Len(sts)}

---------------------------------------------------------------------------
\* The operating system.

\* The child relations the enumeration may report. In Shared pid 3 is
\* reported as a child of pid 1 and of pid 2.
Chain  == [p \in Pids |-> IF p < NumPids THEN {p + 1} ELSE {}]
Fan    == [p \in Pids |-> IF p = Root THEN Pids \ {Root} ELSE {}]
Shared == [p \in Pids |-> {q \in Pids : q > p /\ (p = Root \/ q = NumPids)}]
Shapes == {Chain, Fan, Shared}

\* pgrep -P p: the live children of p, in ascending order.
Children(p) == SetToSeq(kids[p] \cap alive)

Running == pc \notin {"done", "panic", "exited"}

\* A process exits.
Exit(p) ==
    /\ Running
    /\ events < MaxEvents
    /\ p \in alive
    /\ alive' = alive \ {p}
    /\ events' = events + 1
    /\ UNCHANGED <<fnVars, kids, killed, ctr, sysTicks, mainVars, goVars, p1Vars>>

\* A live process forks p. A pid that has exited may be given out again: the
\* new process starts with its counters at zero.
Spawn(p) ==
    /\ Running
    /\ events < MaxEvents
    /\ p \notin alive
    /\ p # Root
    /\ p \notin killed
    /\ \E q \in alive : p \in kids[q]
    /\ alive' = alive \cup {p}
    /\ ctr' = [ctr EXCEPT ![p] = <<0, 0>>]
    /\ events' = events + 1
    /\ UNCHANGED <<fnVars, kids, killed, sysTicks, mainVars, goVars, p1Vars>>

Env == \E p \in Pids : Exit(p) \/ Spawn(p)

InitEnv ==
    /\ alive \in {S \in SUBSET Pids : Root \in S}
    /\ kids \in Shapes
    /\ killed = {}
    /\ ctr = [p \in Pids |-> <<0, 0>>]
    /\ sysTicks = 1
    /\ events = 0

InitMain ==
    /\ pc = "loop"
    /\ tick = 0
    /\ statuses = <<>>
    /\ usages = <<>>
    /\ seen = [p \in Pids |-> {}]
    /\ err = NoErr
    /\ stderr = {}
    /\ report = <<>>

InitGo ==
    /\ pidMap = {}
    /\ pids = <<>>
    /\ idx = 1
    /\ procs = <<>>
    /\ cleanup = "none"
    /\ sigpc = "idle"
    /\ sprocs = <<>>

InitP1 ==
    /\ todo = <<>>
    /\ usage = <<>>

\* No size function has been called.
NotCalled == [called |-> FALSE]

InitFn ==
    /\ size = NotCalled
    /\ text = NotCalled
    /\ parsed = NotCalled

\* A panic that nothing recovers: the process dies, nothing more is printed.
Panic(op, p) ==
    /\ pc' = "panic"
    /\ err' = [op |-> op, pid |-> p]

\* The append over a map that holds a key for every pid from the start, its
\* history empty until the pid is observed.
RECURSIVE AppendAllKeyed(_, _)
AppendAllKeyed(u, sts) ==
    IF sts = <<>> THEN [p \in Pids |-> IF p \in DOMAIN u THEN u[p] ELSE <<>>]
    ELSE LET ps == Head(sts)
             h  == IF ps.Pid \in DOMAIN u THEN u[ps.Pid] ELSE <<>>
             u2 == [p \in DOMAIN u \cup {ps.Pid} |->
                        IF p = ps.Pid THEN Append(h, ps) ELSE u[p]]
         IN  AppendAllKeyed(u2, Tail(sts))

\* usages[ps.Pid] = append(usages[ps.Pid], ps) for every ps of sts, in order.
RECURSIVE AppendAll(_, _)
AppendAll(u, sts) ==
    IF sts = <<>> THEN u
    ELSE LET ps == Head(sts)
             h  == IF ps.Pid \in DOMAIN u THEN u[ps.Pid] ELSE <<>>
             u2 == [p \in DOMAIN u \cup {ps.Pid} |->
                        IF p = ps.Pid THEN Append(h, ps) ELSE u[p]]
         IN  AppendAll(u2, Tail(sts))

\* The ticks in which each pid was observed: tick t is added for the pids of sts.
Observe(s, sts, t) ==
    [p \in Pids |-> IF p \in PidsOf(sts) THEN s[p] \cup {t} ELSE s[p]]

---------------------------------------------------------------------------
\* main.go

\* getProcStatus: the status of a live process. Name, CPU and the memory sizes
\* come from the process library and are not carried here.
getProcStatus(p) == [Pid |-> p]

\* childloop without its guard: every reported child is appended, seen or not.
RECURSIVE childloopUnguarded(_, _)
childloopUnguarded(list, children) ==
    IF children = <<>> THEN list
    ELSE childloopUnguarded(Append(list, Head(children)), Tail(children))

\* childloop: a child already in pids is skipped, any other is appended.
RECURSIVE childloop(_, _)
childloop(list, children) ==
    IF children = <<>> THEN list
    ELSE IF Head(children) \in Range(list)
         THEN childloop(list, Tail(children))
         ELSE childloop(Append(list, Head(children)), Tail(children))

\* for time.Now().Before(timeToStop): the duration has not elapsed, a tick
\* starts and getUsage is entered.
StartTick ==
    /\ pc = "loop"
    /\ tick < MaxTicks
    /\ tick' = tick + 1
    /\ pids' = <<Root>>
    /\ idx' = 1
    /\ statuses' = <<>>
    /\ pc' = "walk"
    /\ UNCHANGED <<fnVars, envVars, usages, seen, err, stderr, report,
                   pidMap, procs, cleanup, sigpc, sprocs, p1Vars>>

\* The duration has elapsed: the loop ends and cleanup begins.
TimeUp ==
    /\ pc = "loop"
    /\ pc' = "cleanup"
    /\ UNCHANGED <<fnVars, envVars, tick, statuses, usages, seen, err, stderr, report,
                   goVars, p1Vars>>

\* Visit for a getUsage that appends each status to the histories as soon as
\* it is read, not to a list of its own.
VisitAppending ==
    /\ pc = "walk"
    /\ idx <= Len(pids)
    /\ LET p == pids[idx] IN
       IF p \notin pidMap /\ p \notin alive
       THEN /\ Panic("NewProcess", p)
            /\ UNCHANGED <<statuses, usages, pidMap, pids, idx>>
       ELSE IF p \notin alive
       THEN /\ Panic("getProcStatus", p)
            /\ UNCHANGED <<statuses, usages, pidMap, pids, idx>>
       ELSE \/ /\ pidMap' = pidMap \cup {p}
               /\ statuses' = Append(statuses, getProcStatus(p))
               /\ usages' = AppendAll(usages, <<getProcStatus(p)>>)
               /\ pids' = childloop(pids, Children(p))
               /\ idx' = idx + 1
               /\ UNCHANGED <<pc, err>>
            \/ /\ pidMap' = pidMap \cup {p}
               /\ Panic("Children", p)
               /\ UNCHANGED <<statuses, usages, pids, idx>>
    /\ UNCHANGED <<fnVars, envVars, tick, seen, stderr, report,
                   procs, cleanup, sigpc, sprocs, p1Vars>>

\* One iteration of getUsage's loop, for pids[idx]. Any error is returned to
\* runRktMonitor, which panics with it.
Visit ==
    /\ pc = "walk"
    /\ idx <= Len(pids)
    /\ LET p == pids[idx] IN
       IF p \notin pidMap /\ p \notin alive
       THEN \* process.NewProcess fails
            /\ Panic("NewProcess", p)
            /\ UNCHANGED <<statuses, pidMap, pids, idx>>
       ELSE IF p \notin alive
       THEN \* the cached process is gone: getProcStatus fails
            /\ Panic("getProcStatus", p)
            /\ UNCHANGED <<statuses, pidMap, pids, idx>>
       ELSE \/ \* proc.Children() succeeds, or reports "no children"
               /\ pidMap' = pidMap \cup {p}
               /\ statuses' = Append(statuses, getProcStatus(p))
               /\ pids' = childloop(pids, Children(p))
               /\ idx' = idx + 1
               /\ UNCHANGED <<pc, err>>
            \/ \* proc.Children() fails with another error
               /\ pidMap' = pidMap \cup {p}
               /\ Panic("Children", p)
               /\ UNCHANGED <<statuses, pids, idx>>
    /\ UNCHANGED <<fnVars, envVars, tick, usages, seen, stderr, report,
                   procs, cleanup, sigpc, sprocs, p1Vars>>

\* Record for a getUsage that may return before its loop is over, with the
\* statuses it has collected so far.
RecordEarly ==
    /\ pc = "walk"
    /\ usages' = AppendAll(usages, statuses)
    /\ seen' = Observe(seen, statuses, tick)
    /\ IF Root \in alive
       THEN /\ pc' = "loop"
            /\ UNCHANGED stderr
       ELSE /\ pc' = "cleanup"
            /\ stderr' = stderr \cup {"rkt exited prematurely"}
    /\ UNCHANGED <<fnVars, envVars, tick, statuses, err, report, goVars, p1Vars>>

\* getUsage returns its statuses: they are appended to the histories, then
\* process.NewProcess(root) decides between the sleep and the early break.
Record ==
    /\ pc = "walk"
    /\ idx > Len(pids)
    /\ usages' = AppendAll(usages, statuses)
    /\ seen' = Observe(seen, statuses, tick)
    /\ IF Root \in alive
       THEN /\ pc' = "loop"
            /\ UNCHANGED stderr
       ELSE /\ pc' = "cleanup"
            /\ stderr' = stderr \cup {"rkt exited prematurely"}
    /\ UNCHANGED <<fnVars, envVars, tick, statuses, err, report, goVars, p1Vars>>

\* killAllChildren, first loop: the processes list grows by the children of
\* each of its entries. Nothing guards against a pid already in the list.
RECURSIVE expand(_, _)
expand(processes, i) ==
    IF i > Len(processes) THEN processes
    ELSE expand(processes \o Children(processes[i]), i + 1)

\* killAllChildren, second loop over processes. The first n entries are dealt
\* with: a live one is killed, one that is gone is skipped ("os: process
\* already finished"). With n < Len(processes) the loop returns the error of
\* entry n+1, which can only be a process that is gone by then.
KillOutcomes(processes) ==
    {n \in 0..Len(processes) :
        n < Len(processes) =>
            processes[n + 1] \notin (alive \ Range(SubSeq(processes, 1, n)))}

Kill(processes, n) ==
    /\ alive' = alive \ Range(SubSeq(processes, 1, n))
    /\ killed' = killed \cup (alive \cap Range(SubSeq(processes, 1, n)))

\* KillWalk with a fatal failure: a failed cleanup ends the process, as it does
\* in the signal goroutine.
KillWalkFatal ==
    /\ pc = "cleanup"
    /\ \/ /\ Root \in alive
          /\ procs' = expand(<<Root>>, 1)
          /\ pc' = "kill"
          /\ UNCHANGED <<cleanup, stderr>>
       \/ /\ cleanup' = "failed"
          /\ stderr' = stderr \cup {"cleanup failed"}
          /\ pc' = "exited"
          /\ UNCHANGED procs
    /\ UNCHANGED <<fnVars, envVars, tick, statuses, usages, seen, err, report,
                   pidMap, pids, idx, sigpc, sprocs, p1Vars>>

\* killAllChildren from the main goroutine, up to the end of the first loop.
\* process.NewProcess(root) fails when the root is gone, and Children() may
\* fail: either error is returned at once and reported as a failed cleanup.
KillWalk ==
    /\ pc = "cleanup"
    /\ \/ /\ Root \in alive
          /\ procs' = expand(<<Root>>, 1)
          /\ pc' = "kill"
          /\ UNCHANGED <<cleanup, stderr>>
       \/ /\ Root \notin alive
          /\ cleanup' = "failed"
          /\ stderr' = stderr \cup {"cleanup failed"}
          /\ pc' = "report"
          /\ UNCHANGED procs
       \/ /\ Root \in alive
          /\ cleanup' = "failed"
          /\ stderr' = stderr \cup {"cleanup failed"}
          /\ pc' = "report"
          /\ UNCHANGED procs
    /\ UNCHANGED <<fnVars, envVars, tick, statuses, usages, seen, err, report,
                   pidMap, pids, idx, sigpc, sprocs, p1Vars>>

\* killAllChildren from the main goroutine, the second loop and the return.
KillLoop ==
    /\ pc = "kill"
    /\ \E n \in KillOutcomes(procs) :
          /\ Kill(procs, n)
          /\ IF n = Len(procs)
             THEN /\ cleanup' = "ok"
                  /\ UNCHANGED stderr
             ELSE /\ cleanup' = "failed"
                  /\ stderr' = stderr \cup {"cleanup failed"}
    /\ pc' = "report"
    /\ UNCHANGED <<fnVars, kids, ctr, sysTicks, events, tick, statuses, usages, seen, err, report,
                   pidMap, pids, idx, procs, sigpc, sprocs, p1Vars>>

\* One summary line per key of usages.
Summaries(u) ==
    [p \in DOMAIN u |-> [Pid |-> u[p][1].Pid, alive |-> Len(u[p])]]

\* The final report.
Report ==
    /\ pc = "report"
    /\ report' = Summaries(usages)
    /\ pc' = "done"
    /\ UNCHANGED <<fnVars, envVars, tick, statuses, usages, seen, err, stderr,
                   goVars, p1Vars>>

\* os.Interrupt arrives on the channel: the signal goroutine wakes up.
Interrupt ==
    /\ Running
    /\ sigpc = "idle"
    /\ sigpc' = "cleanup"
    /\ UNCHANGED <<fnVars, envVars, mainVars, pidMap, pids, idx, procs, cleanup,
                   sprocs, p1Vars>>

\* The signal goroutine: killAllChildren up to the end of its first loop. An
\* error is printed and os.Exit(1) ends the process.
SigKillWalk ==
    /\ Running
    /\ sigpc = "cleanup"
    /\ \/ /\ Root \in alive
          /\ sprocs' = expand(<<Root>>, 1)
          /\ sigpc' = "kill"
          /\ UNCHANGED <<pc, stderr>>
       \/ /\ Root \notin alive
          /\ stderr' = stderr \cup {"cleanup failed"}
          /\ sigpc' = "exited"
          /\ pc' = "exited"
          /\ UNCHANGED sprocs
       \/ /\ Root \in alive
          /\ stderr' = stderr \cup {"cleanup failed"}
          /\ sigpc' = "exited"
          /\ pc' = "exited"
          /\ UNCHANGED sprocs
    /\ UNCHANGED <<fnVars, envVars, tick, statuses, usages, seen, err, report,
                   pidMap, pids, idx, procs, cleanup, p1Vars>>

\* The signal goroutine: the second loop of killAllChildren, then os.Exit(1).
SigKillLoop ==
    /\ Running
    /\ sigpc = "kill"
    /\ \E n \in KillOutcomes(sprocs) :
          /\ Kill(sprocs, n)
          /\ IF n = Len(sprocs)
             THEN UNCHANGED stderr
             ELSE stderr' = stderr \cup {"cleanup failed"}
    /\ sigpc' = "exited"
    /\ pc' = "exited"
    /\ UNCHANGED <<fnVars, kids, ctr, sysTicks, events, tick, statuses, usages, seen, err, report,
                   pidMap, pids, idx, procs, cleanup, sprocs, p1Vars>>

Init ==
    /\ InitEnv
    /\ InitMain
    /\ InitGo
    /\ InitP1
    /\ InitFn
    /\ flagVerbose = FALSE

Next ==
    \/ StartTick
    \/ TimeUp
    \/ Visit
    \/ Record
    \/ KillWalk
    \/ KillLoop
    \/ Report
    \/ Interrupt
    \/ SigKillWalk
    \/ SigKillLoop
    \/ Env

Spec == Init /\ [][Next]_vars

---------------------------------------------------------------------------
\* uint64 arithmetic. A uint64 is four 16-bit limbs, least significant first;
\* every operation wraps modulo 2^64 as Go's does.

LimbBase == 2^16

\* The uint64 of a natural number below 2^31.
U64(n) == <<n % LimbBase, (n \div LimbBase) % LimbBase, 0, 0>>

\* a - b
Sub64(a, b) ==
    LET d1 == a[1] - b[1]
        d2 == a[2] - b[2] - (IF d1 < 0 THEN 1 ELSE 0)
        d3 == a[3] - b[3] - (IF d2 < 0 THEN 1 ELSE 0)
        d4 == a[4] - b[4] - (IF d3 < 0 THEN 1 ELSE 0)
    IN  <<d1 % LimbBase, d2 % LimbBase, d3 % LimbBase, d4 % LimbBase>>

\* a + b
Add64(a, b) ==
    LET s1 == a[1] + b[1]
        s2 == a[2] + b[2] + (s1 \div LimbBase)
        s3 == a[3] + b[3] + (s2 \div LimbBase)
        s4 == a[4] + b[4] + (s3 \div LimbBase)
    IN  <<s1 % LimbBase, s2 % LimbBase, s3 % LimbBase, s4 % LimbBase>>

\* k * a, for a natural number k below 2^15
Mul64(k, a) ==
    LET m1 == k * a[1]
        m2 == k * a[2] + (m1 \div LimbBase)
        m3 == k * a[3] + (m2 \div LimbBase)
        m4 == k * a[4] + (m3 \div LimbBase)
    IN  <<m1 % LimbBase, m2 % LimbBase, m3 % LimbBase, m4 % LimbBase>>

\* a / d, for a natural number d with 0 < d < 2^15
Div64(a, d) ==
    LET r4 == a[4] % d
        n3 == r4 * LimbBase + a[3]
        r3 == n3 % d
        n2 == r3 * LimbBase + a[2]
        r2 == n2 % d
        n1 == r2 * LimbBase + a[1]
    IN  <<n1 \div d, n2 \div d, n3 \div d, a[4] \div d>>

---------------------------------------------------------------------------
\* part_001

Percent == 100

ZeroStatus(p) ==
    [Pid |-> p, Utime |-> 0, LastUtime |-> 0, Stime |-> 0, LastStime |-> 0,
     TimeTotal |-> 0, LastTimeTotal |-> 0]

\* getProcStatus, first loop: the last entry of lastStatuses with this pid,
\* the zero value if there is none.
RECURSIVE p1_lastStatus(_, _)
p1_lastStatus(p, lastStatuses) ==
    IF lastStatuses = <<>> THEN ZeroStatus(0)
    ELSE LET s == lastStatuses[Len(lastStatuses)]
         IN  IF s.Pid = p THEN s
             ELSE p1_lastStatus(p, SubSeq(lastStatuses, 1, Len(lastStatuses) - 1))

\* getProcStatus: the status of pid p, which read utime u, stime s and the
\* system total t.
p1_getProcStatus(p, lastStatuses, u, s, t) ==
    LET lastStatus == p1_lastStatus(p, lastStatuses)
    IN  [Pid |-> p,
         Utime |-> u, LastUtime |-> lastStatus.Utime,
         Stime |-> s, LastStime |-> lastStatus.Stime,
         TimeTotal |-> t, LastTimeTotal |-> lastStatus.TimeTotal]

\* The divisor of both CPU formulas, ps.TimeTotal - ps.LastTimeTotal. The
\* system total never decreases, so the difference does not wrap.
TimeDelta(ps) == ps.TimeTotal - ps.LastTimeTotal

\* Go panics on an integer division by zero.
DivZero(ps) == TimeDelta(ps) = 0

\* GetCPUUsageUser, where the divisor is not zero.
p1_GetCPUUsageUser(ps) ==
    Div64(Mul64(Percent, Sub64(U64(ps.Utime), U64(ps.LastUtime))), TimeDelta(ps))

\* GetCPUUsageKernel, where the divisor is not zero. Nothing calls it.
p1_GetCPUUsageKernel(ps) ==
    Div64(Mul64(Percent, Sub64(U64(ps.Stime), U64(ps.LastStime))), TimeDelta(ps))

p1_StartTick ==
    /\ pc = "loop"
    /\ tick < MaxTicks
    /\ tick' = tick + 1
    /\ todo' = <<Root>>
    /\ statuses' = <<>>
    /\ pc' = "walk"
    /\ UNCHANGED <<fnVars, envVars, usages, seen, err, stderr, report,
                   goVars, flagVerbose, usage>>

\* One call of the recursive getUsage: getProcStatus(pid), then
\* getChildrenPids(pid), whose pids are visited before the pending siblings.
p1_Visit ==
    /\ pc = "walk"
    /\ todo # <<>>
    /\ LET p == Head(todo) IN
       IF p \notin alive
       THEN \* /proc/<pid>/status cannot be read
            /\ Panic("ReadFile", p)
            /\ UNCHANGED <<ctr, sysTicks, statuses, todo>>
       ELSE \/ \* /proc/stat cannot be read, or holds no total
               /\ Panic("stat", p)
               /\ UNCHANGED <<ctr, sysTicks, statuses, todo>>
            \/ \E t \in sysTicks..MaxSysTicks,
                  u \in ctr[p][1]..MaxProcTicks,
                  s \in ctr[p][2]..MaxProcTicks :
                  /\ u + s <= MaxProcTicks
                  /\ sysTicks' = t
                  /\ ctr' = [ctr EXCEPT ![p] = <<u, s>>]
                  /\ statuses' = Append(statuses, p1_getProcStatus(p, usage, u, s, t))
                  /\ todo' = Children(p) \o Tail(todo)
                  /\ UNCHANGED <<pc, err>>
    /\ UNCHANGED <<fnVars, alive, kids, killed, events, tick, usages, seen, stderr, report,
                   goVars, flagVerbose, usage>>

\* The first status of sts whose CPU formula divides by zero.
FirstDivZero(sts) ==
    LET i == CHOOSE i \in 1..Len(sts) :
                 DivZero(sts[i]) /\ \A j \in 1..(i - 1) : ~DivZero(sts[j])
    IN  sts[i].Pid

\* getUsage has returned: printUsage under -v, the append to the histories,
\* the sleep.
p1_Record ==
    /\ pc = "walk"
    /\ todo = <<>>
    /\ usage' = statuses
    /\ IF flagVerbose /\ \E i \in 1..Len(statuses) : DivZero(statuses[i])
       THEN /\ Panic("divide by zero", FirstDivZero(statuses))
            /\ UNCHANGED <<usages, seen>>
       ELSE /\ usages' = AppendAll(usages, statuses)
            /\ seen' = Observe(seen, statuses, tick)
            /\ pc' = "loop"
            /\ UNCHANGED err
    /\ UNCHANGED <<fnVars, envVars, tick, statuses, stderr, report,
                   goVars, flagVerbose, todo>>

\* execCmd.Process.Kill(): the root alone is killed.
p1_Kill ==
    /\ alive' = alive \ {Root}
    /\ killed' = killed \cup (alive \cap {Root})

\* The duration has elapsed: the root is killed and the report follows.
p1_TimeUp ==
    /\ pc = "loop"
    /\ p1_Kill
    /\ pc' = "report"
    /\ UNCHANGED <<fnVars, kids, ctr, sysTicks, events, tick, statuses, usages, seen, err, stderr,
                   report, goVars, p1Vars>>

RECURSIVE p1_sumCPU(_)
\* avgCPU += process.GetCPUUsageUser() over a history
p1_sumCPU(h) ==
    IF h = <<>> THEN U64(0)
    ELSE Add64(p1_sumCPU(SubSeq(h, 1, Len(h) - 1)), p1_GetCPUUsageUser(h[Len(h)]))

p1_Summary(h) ==
    [Pid |-> h[1].Pid, alive |-> Len(h), avgCPU |-> Div64(p1_sumCPU(h), Len(h))]

HasDivZero(h) == \E i \in 1..Len(h) : DivZero(h[i])

\* The final report. The histories are visited in the map's order, which Go
\* leaves unspecified: a division by zero ends the report after any number of
\* the other lines.
p1_Report ==
    /\ pc = "report"
    /\ LET bad == {p \in DOMAIN usages : HasDivZero(usages[p])} IN
       IF bad = {}
       THEN /\ report' = [p \in DOMAIN usages |-> p1_Summary(usages[p])]
            /\ pc' = "done"
            /\ UNCHANGED err
       ELSE \E b \in bad : \E printed \in SUBSET (DOMAIN usages \ bad) :
               /\ report' = [p \in printed |-> p1_Summary(usages[p])]
               /\ Panic("divide by zero", b)
    /\ UNCHANGED <<fnVars, envVars, tick, statuses, usages, seen, stderr,
                   goVars, p1Vars>>

\* os.Interrupt: the signal goroutine kills the root and calls os.Exit(1).
p1_Interrupt ==
    /\ Running
    /\ p1_Kill
    /\ pc' = "exited"
    /\ UNCHANGED <<fnVars, kids, ctr, sysTicks, events, tick, statuses, usages, seen, err, stderr,
                   report, goVars, p1Vars>>

InitProc ==
    /\ InitEnv
    /\ InitMain
    /\ InitGo
    /\ InitP1
    /\ InitFn
    /\ flagVerbose \in BOOLEAN

NextProc ==
    \/ p1_StartTick
    \/ p1_Visit
    \/ p1_Record
    \/ p1_TimeUp
    \/ p1_Report
    \/ p1_Interrupt
    \/ Env

SpecProc == InitProc /\ [][NextProc]_vars

---------------------------------------------------------------------------
\* Properties.

Histories == {usages[p] : p \in DOMAIN usages}

\* h[i] was computed against h[i-1]: its Last fields are h[i-1]'s counters.
Follows(h, i) ==
    /\ h[i].LastUtime = h[i - 1].Utime
    /\ h[i].LastStime = h[i - 1].Stime
    /\ h[i].LastTimeTotal = h[i - 1].TimeTotal

\* C1 (part_001). For a snapshot taken against its predecessor, with a
\* positive system tick delta and process tick deltas that are not negative,
\* the CPU percentage is 100 * (delta user + delta kernel) / delta system.
C1_CpuCountsUserAndKernelTicks ==
    \A h \in Histories : \A i \in 2..Len(h) :
        (/\ Follows(h, i)
         /\ h[i].TimeTotal > h[i - 1].TimeTotal
         /\ h[i].Utime >= h[i - 1].Utime
         /\ h[i].Stime >= h[i - 1].Stime)
        => p1_GetCPUUsageUser(h[i])
             = U64((Percent * ((h[i].Utime - h[i - 1].Utime)
                               + (h[i].Stime - h[i - 1].Stime)))
                   \div (h[i].TimeTotal - h[i - 1].TimeTotal))

\* C2 (part_001). A system tick delta of zero gives a CPU percentage of 0:
\* neither the verbose printing nor the final averaging divides by zero.
C2_ZeroSystemDeltaDoesNotDivide ==
    err.op # "divide by zero"

\* The cumulative counters of ps are smaller than those of the snapshot it was
\* computed against.
Decreased(ps) == ps.Utime < ps.LastUtime \/ ps.Stime < ps.LastStime

\* C3 (part_001). A snapshot whose counters decreased starts a new history (it
\* is the first of its history, the earlier snapshots being discarded), and
\* its CPU percentage is 0.
C3_PidReuseStartsNewHistory ==
    \A h \in Histories : \A i \in 1..Len(h) :
        Decreased(h[i]) =>
            /\ i = 1
            /\ ~DivZero(h[i]) => p1_GetCPUUsageUser(h[i]) = U64(0)

GoneOps == {"NewProcess", "getProcStatus", "ReadFile"}

\* C4 (main.go). A process other than the root that is gone when its status
\* is read does not abort the run.
C4_ChildGoneDoesNotAbort ==
    ~(pc = "panic" /\ err.op \in GoneOps /\ err.pid # Root)

\* C5 (part_001). The statuses one getUsage call collects hold each pid at
\* most once.
C5_StatusesHoldEachPidOnce ==
    \A i, j \in 1..Len(statuses) :
        statuses[i].Pid = statuses[j].Pid => i = j

\* The same statement for main.go's getUsage, whose childloop skips a pid that
\* is already in the list.
GoStatusesHoldEachPidOnce ==
    /\ \A i, j \in 1..Len(pids) : pids[i] = pids[j] => i = j
    /\ \A i, j \in 1..Len(statuses) :
           statuses[i].Pid = statuses[j].Pid => i = j

\* C6 (main.go). The history under usages[p] holds only snapshots of pid p and
\* is as long as the number of ticks that observed p; the keys of usages are
\* the pids observed; the report has one summary per pid observed, whose
\* lifetime is that number of ticks.
C6_HistoryLengthIsTicksObserved ==
    /\ DOMAIN usages = {p \in Pids : seen[p] # {}}
    /\ \A p \in DOMAIN usages :
          /\ \A i \in 1..Len(usages[p]) : usages[p][i].Pid = p
          /\ Len(usages[p]) = Cardinality(seen[p])
    /\ pc = "done" =>
          /\ DOMAIN report = {p \in Pids : seen[p] # {}}
          /\ \A p \in DOMAIN report :
                /\ report[p].Pid = p
                /\ report[p].alive = Cardinality(seen[p])

\* C6, reached: the root was observed in ticks 1 and 2, a child first in tick 2: the report
\* gives them the lifetimes 2 and 1.
C6_Witness ==
    /\ pc = "done"
    /\ seen[Root] = {1, 2}
    /\ \E p \in Pids \ {Root} :
          /\ seen[p] = {2}
          /\ report[p].alive = 1
          /\ report[Root].alive = 2

\* C7 (main.go). A tick that finds the root gone raises no error.
C7_RootGoneRaisesNoError ==
    ~(pc = "panic" /\ err.op \in GoneOps /\ err.pid = Root)

\* C8 (part_001). When the system-wide tick source fails in a tick after the
\* first, the run ends and the report holds a summary of every history
\* accumulated before.
C8_TickSourceFailureStillReports ==
    (err.op = "stat" /\ tick > 1 /\ ~Running) => DOMAIN report = DOMAIN usages

RECURSIVE Closure(_)
Closure(S) ==
    LET N == S \cup UNION {kids[p] : p \in S}
    IN  IF N = S THEN S ELSE Closure(N)

\* The live descendants of the root.
LiveDescendants == alive \cap Closure(kids[Root])

\* C9 (main.go). Cleanup that runs after the root has exited still terminates
\* the descendants that are live.
C9_CleanupSurvivesExitedRoot ==
    [][(pc = "cleanup" /\ Root \notin alive /\ pc' = "report")
          => LiveDescendants' = {}]_vars

LoopEndEventuallyReports ==
    (pc = "cleanup") ~> (pc = "done" \/ sigpc = "exited")

FairSpec ==
    Spec /\ WF_vars(KillWalk) /\ WF_vars(KillLoop) /\ WF_vars(Report)

---------------------------------------------------------------------------
\* C11 (main.go). Every key of usages has a history of at least one snapshot,
\* so the report never divides by a length of zero and processHistory[0]
\* exists: every summary printed has a lifetime of at least 1.
C11_NoEmptyHistory ==
    /\ \A p \in DOMAIN usages : Len(usages[p]) >= 1
    /\ \A p \in DOMAIN report : report[p].alive >= 1

\* C11, reached: the report was printed from two histories of different
\* lengths, one of them a single snapshot.
C11_Witness ==
    /\ pc = "done"
    /\ \E p, q \in DOMAIN usages :
          /\ Len(usages[p]) = 1
          /\ Len(usages[q]) = MaxTicks
          /\ report[p].alive = 1
          /\ report[q].alive = MaxTicks

---------------------------------------------------------------------------
\* The size functions of part_001, called on their own: formatSize on a byte
\* count and parseLabeledSize on its result, or parseLabeledSize on a labeled
\* size as a line of /proc/<pid>/status carries it. Specification: SpecSize.

Kilo == 1024

MaxMantissa == 4   \* byte counts lie within one byte of m, m kB, m mB, 1 gB
MaxNum      == 1   \* the largest number of a labeled size parsed on its own

\* A string that starts with the decimal number n, followed by label.
Labeled(n, label) == [called |-> TRUE, digits |-> TRUE, num |-> n, label |-> label]

\* A string that does not start with a number.
Unlabeled(label) == [called |-> TRUE, digits |-> FALSE, num |-> 0, label |-> label]

formatSize(n) ==
    IF n > Kilo * Kilo * Kilo THEN Labeled(n \div (Kilo * Kilo * Kilo), " gB")
    ELSE IF n > Kilo * Kilo THEN Labeled(n \div (Kilo * Kilo), " mB")
    ELSE IF n > Kilo THEN Labeled(n \div Kilo, " kB")
    ELSE Labeled(n, " B")

\* fmt.Sscanf(str, "%d" + label, &num). The verb is scanned and stored first,
\* and the count of stored items is returned also when the text after it does
\* not match the format: the mismatch is reported in the error alone.
Sscanf(str, label) ==
    IF str.digits
    THEN [i |-> 1, num |-> str.num, err |-> str.label # label]
    ELSE [i |-> 0, num |-> 0, err |-> TRUE]

Returned(v) == [called |-> TRUE, panic |-> FALSE, value |-> v]
Panicked    == [called |-> TRUE, panic |-> TRUE, value |-> 0]

\* parseLabeledSize looks at the count of each Sscanf and drops its error.
parseLabeledSize(str) ==
    IF Sscanf(str, " B").i = 1 THEN Returned(Sscanf(str, " B").num)
    ELSE IF Sscanf(str, " kB").i = 1
         THEN Returned(Sscanf(str, " kB").num * Kilo)
    ELSE IF Sscanf(str, " mB").i = 1
         THEN Returned(Sscanf(str, " mB").num * Kilo * Kilo)
    ELSE IF Sscanf(str, " gB").i = 1
         THEN Returned(Sscanf(str, " gB").num * Kilo * Kilo * Kilo)
    ELSE Panicked

UnitLabels == {" B", " kB", " mB", " gB"}

\* The bytes one unit of a label stands for.
Scale(label) ==
    CASE label = " B"  -> 1
      [] label = " kB" -> Kilo
      [] label = " mB" -> Kilo * Kilo
      [] label = " gB" -> Kilo * Kilo * Kilo

\* The byte counts formatSize is given: around every change of unit.
Sizes ==
    {n \in {m * u + d : m \in 0..MaxMantissa, u \in {1, Kilo, Kilo * Kilo},
                        d \in {-1, 0, 1}} : n >= 0}
    \cup {Kilo * Kilo * Kilo + d : d \in {-1, 0, 1}}

\* The strings parseLabeledSize is given on its own: the four labels, labels
\* it does not know, and strings without a number.
Texts ==
    {Labeled(n, l) : n \in 0..MaxNum,
                     l \in UnitLabels \cup {" KB", " tB", " pages", ""}}
    \cup {Unlabeled(l) : l \in {"kB", "unlimited", ""}}

CallFormatSize ==
    /\ size.called
    /\ ~text.called
    /\ text' = formatSize(size.n)
    /\ UNCHANGED <<size, parsed, envVars, mainVars, goVars, p1Vars>>

CallParseLabeledSize ==
    /\ text.called
    /\ ~parsed.called
    /\ parsed' = parseLabeledSize(text)
    /\ UNCHANGED <<size, text, envVars, mainVars, goVars, p1Vars>>

InitSize ==
    /\ InitEnv /\ alive = {Root} /\ kids = Chain
    /\ InitMain /\ InitGo /\ InitP1 /\ flagVerbose = FALSE
    /\ parsed = NotCalled
    /\ \/ size \in {[called |-> TRUE, n |-> n] : n \in Sizes} /\ text = NotCalled
       \/ size = NotCalled /\ text \in Texts

NextSize == CallFormatSize \/ CallParseLabeledSize

SpecSize == InitSize /\ [][NextSize]_vars

\* C12 (part_001). parseLabeledSize(formatSize(n)) does not fail, and returns
\* a value v with 0 <= n - v <= granularity - 1, the granularity being the
\* bytes of the unit formatSize chose.
C12_FormatParseRoundTrip ==
    (size.called /\ parsed.called) =>
        /\ ~parsed.panic
        /\ size.n - parsed.value >= 0
        /\ size.n - parsed.value <= Scale(text.label) - 1

\* The same for the byte counts formatSize labels " B", where no unit is lost.
RoundTripOfBytes ==
    (size.called /\ parsed.called /\ text.label = " B") =>
        ~parsed.panic /\ parsed.value = size.n

\* C17 (part_001). parseLabeledSize returns the number scaled by 1, 1024,
\* 1024^2, 1024^3 for the labels B, kB, mB, gB, and fails for any other.
C17_ParseScalesByLabel ==
    (text.called /\ text.digits /\ parsed.called) =>
        IF text.label \in UnitLabels
        THEN ~parsed.panic /\ parsed.value = text.num * Scale(text.label)
        ELSE parsed.panic

\* What parseLabeledSize does: a string that starts with a number gives that
\* number, whatever follows it; any other string panics.
ParseIgnoresLabel ==
    (text.called /\ parsed.called) =>
        IF text.digits THEN parsed = Returned(text.num) ELSE parsed.panic

---------------------------------------------------------------------------
---------------------------------------------------------------------------
\* C14 (part_001). The first snapshot of a pid, taken with no snapshot of the
\* pid before it, has a CPU percentage of 0, whatever its cumulative counters.
C14_FirstObservationIsZero ==
    \A h \in Histories :
        ~DivZero(h[1]) => p1_GetCPUUsageUser(h[1]) = U64(0)

---------------------------------------------------------------------------
\* C15 (part_001). Every snapshot of a history after the first was computed
\* against the snapshot before it in that history: its LastUtime, LastStime
\* and LastTimeTotal are the Utime, Stime and TimeTotal of its predecessor.
C15_DeltaAgainstPrecedingSnapshot ==
    \A h \in Histories : \A i \in 2..Len(h) : Follows(h, i)

---------------------------------------------------------------------------
\* C16 (main.go). A child enumeration that fails for one pid, with an error
\* other than "no children", does not abort the walk: the pids already in the
\* list are still visited in the same tick.
C16_EnumerationErrorDoesNotAbort ==
    ~(pc = "panic" /\ err.op = "Children")

---------------------------------------------------------------------------
\* The memory columns of the final report, computed from histories whose
\* snapshots carry the memory sizes. Specification: SpecMem. It starts where
\* the loop has ended, with the histories of either program, and prints.

MaxMem  == 2   \* the largest memory size of a snapshot
MaxHist == 2   \* the longest history

\* The value of one field in every snapshot of a history, in order.
RSSs(h)    == [i \in 1..Len(h) |-> h[i].RSS]
VmSizes(h) == [i \in 1..Len(h) |-> h[i].VmSize]
VmPeaks(h) == [i \in 1..Len(h) |-> h[i].VmPeak]
VmRSSs(h)  == [i \in 1..Len(h) |-> h[i].VmRSS]

\* avgMem += m, for every m of ms. The sizes are far from 2^64: no wrap.
RECURSIVE sumMem(_, _)
sumMem(ms, avgMem) ==
    IF ms = <<>> THEN avgMem ELSE sumMem(Tail(ms), avgMem + Head(ms))

\* The peak loop that stores every size it meets, without comparing.
RECURSIVE peakLast(_, _)
peakLast(ms, peakMem) ==
    IF ms = <<>> THEN peakMem ELSE peakLast(Tail(ms), Head(ms))

\* if peakMem < m { peakMem = m }, for every m of ms.
RECURSIVE peakOf(_, _)
peakOf(ms, peakMem) ==
    IF ms = <<>> THEN peakMem
    ELSE peakOf(Tail(ms), IF peakMem < Head(ms) THEN Head(ms) ELSE peakMem)

\* main.go: one line of the report.
MemLine(h) ==
    [Pid |-> h[1].Pid, alive |-> Len(h),
     avgMem |-> sumMem(RSSs(h), 0) \div Len(h),
     peakMem |-> peakOf(RSSs(h), 0)]

\* part_001: one line of the report.
p1_MemLine(h) ==
    [Pid |-> h[1].Pid, alive |-> Len(h),
     avgMem |-> sumMem(VmSizes(h), 0) \div Len(h),
     peakMem |-> peakOf(VmPeaks(h), 0)]

\* main.go: the snapshots getProcStatus makes, with the resident size.
GoSnapshots == {[Pid |-> Root, RSS |-> m] : m \in 0..MaxMem}

\* part_001: the snapshots getProcStatus makes from /proc/<pid>/status. The
\* kernel keeps the resident size within the virtual size, and each within
\* its peak.
p1_Snapshots ==
    {s \in [Pid : {Root}, VmPeak : 0..MaxMem, VmSize : 0..MaxMem,
            VmHWM : 0..MaxMem, VmRSS : 0..MaxMem] :
        /\ s.VmRSS <= s.VmHWM /\ s.VmRSS <= s.VmSize
        /\ s.VmSize <= s.VmPeak /\ s.VmHWM <= s.VmPeak}

\* The histories of length 1..MaxHist over a set of snapshots.
HistoriesOver(S) == UNION {[1..n -> S] : n \in 1..MaxHist}

ReportMem ==
    /\ pc = "report"
    /\ report' = [p \in DOMAIN usages |-> MemLine(usages[p])]
    /\ pc' = "done"
    /\ UNCHANGED <<fnVars, envVars, tick, statuses, usages, seen, err, stderr,
                   goVars, p1Vars>>

p1_ReportMem ==
    /\ pc = "p1_report"
    /\ report' = [p \in DOMAIN usages |-> p1_MemLine(usages[p])]
    /\ pc' = "p1_done"
    /\ UNCHANGED <<fnVars, envVars, tick, statuses, usages, seen, err, stderr,
                   goVars, p1Vars>>

InitMem ==
    /\ InitEnv /\ alive = {Root} /\ kids = Chain
    /\ InitGo /\ InitP1 /\ InitFn /\ flagVerbose = FALSE
    /\ tick = MaxTicks
    /\ statuses = <<>>
    /\ seen = [p \in Pids |-> {}]
    /\ err = NoErr
    /\ stderr = {}
    /\ report = <<>>
    /\ \/ /\ pc = "report"
          /\ usages \in {[p \in {Root} |-> h] : h \in HistoriesOver(GoSnapshots)}
       \/ /\ pc = "p1_report"
          /\ usages \in {[p \in {Root} |-> h] : h \in HistoriesOver(p1_Snapshots)}

NextMem == ReportMem \/ p1_ReportMem

SpecMem == InitMem /\ [][NextMem]_vars

\* The largest element and the mean (rounded down) of a sequence of sizes.
MaxOf(ms) == CHOOSE m \in Range(ms) : \A x \in Range(ms) : x <= m

RECURSIVE Total(_)
Total(ms) == IF ms = <<>> THEN 0 ELSE ms[Len(ms)] + Total(SubSeq(ms, 1, Len(ms) - 1))

MeanOf(ms) == Total(ms) \div Len(ms)

\* The resident sizes of a history, in either program.
Resident(h) == IF pc \in {"report", "done"} THEN RSSs(h) ELSE VmRSSs(h)

---------------------------------------------------------------------------
\* The three tree walks, each run once over a live set and a child relation
\* that do not change during the walk. The relation is any relation over the
\* pids: a pid may be reported under several parents, as its own child, or as
\* a child of its descendant. Specification: SpecWalk.

MaxExcess == 1   \* visits followed beyond the longest walk that ends

\* A walk over a relation without a cycle visits a pid once for every path
\* from the root to it; over NumPids pids there are at most 2^(NumPids - 1)
\* paths from the root. A walk with more visits is in a cycle and never ends.
LongestWalk == 2^(NumPids - 1)

WalkCap == LongestWalk + MaxExcess

Relations == [Pids -> SUBSET Pids]

\* main.go getUsage: one iteration of the loop over pids, or the return.
getUsageLoop ==
    /\ pc = "getUsage"
    /\ IF idx <= Len(pids)
       THEN /\ idx <= WalkCap
            /\ statuses' = Append(statuses, getProcStatus(pids[idx]))
            /\ pids' = childloop(pids, Children(pids[idx]))
            /\ idx' = idx + 1
            /\ UNCHANGED pc
       ELSE /\ pc' = "returned"
            /\ UNCHANGED <<statuses, pids, idx>>
    /\ UNCHANGED <<fnVars, envVars, tick, usages, seen, err, stderr, report,
                   pidMap, procs, cleanup, sigpc, sprocs, p1Vars>>

\* main.go killAllChildren: one iteration of the first loop over processes,
\* or its end.
killAllChildrenLoop ==
    /\ pc = "killAllChildren"
    /\ IF idx <= Len(procs)
       THEN /\ idx <= WalkCap
            /\ procs' = procs \o Children(procs[idx])
            /\ idx' = idx + 1
            /\ UNCHANGED pc
       ELSE /\ pc' = "returned"
            /\ UNCHANGED <<procs, idx>>
    /\ UNCHANGED <<fnVars, envVars, tick, statuses, usages, seen, err, stderr,
                   report, pidMap, pids, cleanup, sigpc, sprocs, p1Vars>>

\* part_001 getUsage: one call of the recursion, or the return of the
\* outermost call.
p1_getUsageCall ==
    /\ pc = "p1_getUsage"
    /\ IF todo # <<>>
       THEN /\ Len(statuses) < WalkCap
            /\ statuses' = Append(statuses, [Pid |-> Head(todo)])
            /\ todo' = Children(Head(todo)) \o Tail(todo)
            /\ UNCHANGED pc
       ELSE /\ pc' = "returned"
            /\ UNCHANGED <<statuses, todo>>
    /\ UNCHANGED <<fnVars, envVars, tick, usages, seen, err, stderr, report,
                   goVars, flagVerbose, usage>>

InitWalk ==
    /\ alive \in {S \in SUBSET Pids : Root \in S}
    /\ kids \in Relations
    /\ killed = {}
    /\ ctr = [p \in Pids |-> <<0, 0>>]
    /\ sysTicks = 1
    /\ events = 0
    /\ pc \in {"getUsage", "killAllChildren", "p1_getUsage"}
    /\ tick = 1
    /\ statuses = <<>>
    /\ usages = <<>>
    /\ seen = [p \in Pids |-> {}]
    /\ err = NoErr
    /\ stderr = {}
    /\ report = <<>>
    /\ pidMap = {}
    /\ pids = IF pc = "getUsage" THEN <<Root>> ELSE <<>>
    /\ idx = 1
    /\ procs = IF pc = "killAllChildren" THEN <<Root>> ELSE <<>>
    /\ cleanup = "none"
    /\ sigpc = "idle"
    /\ sprocs = <<>>
    /\ todo = IF pc = "p1_getUsage" THEN <<Root>> ELSE <<>>
    /\ usage = <<>>
    /\ flagVerbose = FALSE
    /\ InitFn

NextWalk == getUsageLoop \/ killAllChildrenLoop \/ p1_getUsageCall

SpecWalk == InitWalk /\ [][NextWalk]_vars

\* The visits a walk has made.
Visits == IF Len(statuses) > idx - 1 THEN Len(statuses) ELSE idx - 1

\* C19. For any live set and any child relation the tree walk terminates: no
\* walk makes more visits than the longest walk that ends.
C19_WalkTerminates ==
    Visits <= LongestWalk

\* The walk of main.go's getUsage ends after one visit per pid at most.
GoWalkVisitsEachPidOnce ==
    pids # <<>> =>
        /\ \A i, j \in 1..Len(pids) : pids[i] = pids[j] => i = j
        /\ idx <= Len(pids) + 1
        /\ idx <= NumPids + 1

\* Where no live pid reachable from the root is its own descendant, the walks
\* stay within the longest walk.
RECURSIVE LiveReach(_)
LiveReach(S) ==
    LET N == S \cup UNION {kids[p] \cap alive : p \in S}
    IN  IF N = S THEN S ELSE LiveReach(N)

HasCycle == \E p \in LiveReach({Root}) : p \in LiveReach(kids[p] \cap alive)

WalkWithoutCycleEnds ==
    ~HasCycle => Visits <= LongestWalk

---------------------------------------------------------------------------
\* C20 (main.go). A tick is all or nothing for the histories: no step of a
\* tick but its completion changes usages, so when getUsage fails (the
\* process cannot be created, its status cannot be read, or its children
\* cannot be enumerated) usages is as the previous tick left it: it holds one
\* snapshot per pid and completed tick that observed the pid, and none of the
\* tick that failed.
C20_FailedTickLeavesHistories ==
    /\ [][(pc = "walk" /\ pc' \notin {"loop", "cleanup"}) => usages' = usages]_vars
    /\ [][pc' = "panic" => pc \in {"walk", "panic"} /\ usages' = usages]_vars
    /\ [](pc \in {"walk", "panic"} =>
            /\ DOMAIN usages = {p \in Pids : seen[p] # {}}
            /\ \A p \in DOMAIN usages :
                  /\ tick \notin seen[p]
                  /\ Len(usages[p]) = Cardinality(seen[p]))

\* C20, reached: the second tick failed on a child after the status of the
\* root was read; the histories hold the first tick alone, the child's
\* snapshot of that tick included.
C20_Witness ==
    /\ pc = "panic"
    /\ tick = 2
    /\ err.pid # Root
    /\ statuses # <<>>
    /\ DOMAIN usages = {Root, err.pid}
    /\ \A p \in DOMAIN usages : Len(usages[p]) = 1 /\ seen[p] = {1}

===========================================================================
